---- MODULE Spec2Model ----
(***************************************************************************)
(* Model of skills/swedish-medications/scripts/fass_lookup.py.             *)
(*                                                                         *)
(* A Python str is a sequence of characters; a character is a one-letter   *)
(* TLA+ string.  The link emoji of line 120 lies outside the characters a  *)
(* TLA+ string can hold and is the single character written "U+1F517".     *)
(* Strings are sequences of Unicode scalar values: a str holding a lone    *)
(* surrogate (which urllib.parse.quote refuses to encode) is outside the   *)
(* alphabet of the model.                                                  *)
(***************************************************************************)
EXTENDS Integers, Sequences, FiniteSets, TLC

VARIABLES
    name__,       \* __name__: "__main__" when run as a script, else the module name
    argv,         \* sys.argv
    pending,      \* queries an importing caller still passes to lookup_medication
    query,        \* lookup_medication: its argument in the latest call
    query_lower,  \* lookup_medication: local query_lower
    common_meds,  \* lookup_medication: local common_meds
    found,        \* lookup_medication: local found
    output,       \* lookup_medication: local output (list of lines)
    web_info,     \* lookup_medication: local web_info
    result,       \* lookup_medication: the returned text
    stdout,       \* what print() wrote, one element per print() call
    exit_status,  \* status the process ended with; -1 while it runs
    calls         \* history: one record per lookup_medication call made so far

vars == <<name__, argv, pending, query, query_lower, common_meds, found, output,
          web_info, result, stdout, exit_status, calls>>

(***************************************************************************)
(* Bounds of the model.                                                    *)
(***************************************************************************)
MaxUpper == 1
MaxPad == 1
MaxLen == 3
MaxCalls == 3
MaxArgs == 3

(***************************************************************************)
(* Python str operations.                                                  *)
(***************************************************************************)
None == <<>>

UpperAlpha == (* ABCDEFGHIJKLMNOPQRSTUVWXYZÅÄÖ *)
              <<"A", "B", "C", "D", "E", "F", "G", "H", "I", "J", "K", "L", "M", "N", "O", "P", "Q",
                "R", "S", "T", "U", "V", "W", "X", "Y", "Z", "Å", "Ä", "Ö">>

LowerAlpha == (* abcdefghijklmnopqrstuvwxyzåäö *)
              <<"a", "b", "c", "d", "e", "f", "g", "h", "i", "j", "k", "l", "m", "n", "o", "p", "q",
                "r", "s", "t", "u", "v", "w", "x", "y", "z", "å", "ä", "ö">>

Digits == (* 0123456789 *) <<"0", "1", "2", "3", "4", "5", "6", "7", "8", "9">>

HexDigits == (* 0123456789ABCDEF *)
             <<"0", "1", "2", "3", "4", "5", "6", "7", "8", "9", "A", "B", "C", "D", "E", "F">>

Range(s) == {s[i] : i \in DOMAIN s}

IndexOf(c, s) == CHOOSE i \in DOMAIN s : s[i] = c

\* str.isspace() of one character (the ASCII white space a TLA+ string can hold)
Whitespace == {" ", "\t", "\n", "\r", "\f"}

lower_char(c) == IF c \in Range(UpperAlpha) THEN LowerAlpha[IndexOf(c, UpperAlpha)] ELSE c

upper_char(c) == IF c \in Range(LowerAlpha) THEN UpperAlpha[IndexOf(c, LowerAlpha)] ELSE c

IsCased(c) == c \in Range(UpperAlpha) \cup Range(LowerAlpha)

\* str.lower()
lower(s) == [i \in DOMAIN s |-> lower_char(s[i])]

RECURSIVE lstrip(_)
lstrip(s) == IF s # <<>> /\ Head(s) \in Whitespace THEN lstrip(Tail(s)) ELSE s

RECURSIVE rstrip(_)
rstrip(s) ==
    IF s # <<>> /\ s[Len(s)] \in Whitespace THEN rstrip(SubSeq(s, 1, Len(s) - 1)) ELSE s

\* strip() mistaken for lstrip(): trailing white space is kept
strip_left_only(s) == lstrip(s)

\* str.strip()
strip(s) == rstrip(lstrip(s))

\* str.title(): a cased character is upper-cased when it starts a word (the
\* character before it is not cased) and lower-cased otherwise
title(s) ==
    [i \in DOMAIN s |->
        IF i > 1 /\ IsCased(s[i - 1]) THEN lower_char(s[i]) ELSE upper_char(s[i])]

\* containment that rejects the empty string
contains_nonempty(sub, s) ==
    /\ sub # <<>>
    /\ \E i \in 0..(Len(s) - Len(sub)) : SubSeq(s, i + 1, i + Len(sub)) = sub

\* sub in s, for two str
contains(sub, s) ==
    \E i \in 0..(Len(s) - Len(sub)) : SubSeq(s, i + 1, i + Len(sub)) = sub

\* x in list
InList(x, list) == \E i \in DOMAIN list : list[i] = x

RECURSIVE join(_, _)
\* sep.join(list)
join(sep, list) ==
    IF list = <<>> THEN <<>>
    ELSE IF Len(list) = 1 THEN list[1]
    ELSE list[1] \o sep \o join(sep, Tail(list))

(***************************************************************************)
(* urllib.parse.quote(string) with its defaults: safe = "/", UTF-8.        *)
(***************************************************************************)
\* code points of the characters of the model that quote() has to encode
CodePoints ==
    << <<"\t", 9>>, <<"\n", 10>>, <<"\f", 12>>, <<"\r", 13>>, <<" ", 32>>, <<"%", 37>>,
       <<"&", 38>>, <<"+", 43>>, <<"?", 63>>, <<"=", 61>>,
       <<"Ä", 196>>, <<"Å", 197>>, <<"Ö", 214>>, <<"ä", 228>>, <<"å", 229>>, <<"ö", 246>> >>

ord(c) == (CHOOSE p \in Range(CodePoints) : p[1] = c)[2]

\* str.encode("utf-8") of one character
utf8(cp) ==
    IF cp < 128 THEN <<cp>>
    ELSE IF cp < 2048 THEN <<192 + (cp \div 64), 128 + (cp % 64)>>
    ELSE IF cp < 65536
    THEN <<224 + (cp \div 4096), 128 + ((cp \div 64) % 64), 128 + (cp % 64)>>
    ELSE <<240 + (cp \div 262144), 128 + ((cp \div 4096) % 64),
           128 + ((cp \div 64) % 64), 128 + (cp % 64)>>

\* the characters quote() never encodes: letters, digits, "_.-~", and safe = "/"
AlwaysSafe ==
    (Range(UpperAlpha) \cup Range(LowerAlpha) \cup Range(Digits)
        \cup {"_", ".", "-", "~", "/"})
    \ {"Å", "Ä", "Ö", "å", "ä", "ö"}

quote_byte(b) == <<"%", HexDigits[(b \div 16) + 1], HexDigits[(b % 16) + 1]>>

RECURSIVE quote_bytes(_)
quote_bytes(bs) == IF bs = <<>> THEN <<>> ELSE quote_byte(Head(bs)) \o quote_bytes(Tail(bs))

RECURSIVE quote_plus(_)
\* urllib.parse.quote_plus in the place of quote: a space becomes "+"
quote_plus(s) ==
    IF s = <<>> THEN <<>>
    ELSE (IF Head(s) = " " THEN <<"+">>
          ELSE IF Head(s) \in AlwaysSafe \ {"/"} THEN <<Head(s)>>
          ELSE quote_bytes(utf8(ord(Head(s)))))
         \o quote_plus(Tail(s))

RECURSIVE quote(_)
quote(s) ==
    IF s = <<>> THEN <<>>
    ELSE (IF Head(s) \in AlwaysSafe THEN <<Head(s)>> ELSE quote_bytes(utf8(ord(Head(s)))))
         \o quote(Tail(s))

(***************************************************************************)
(* search_fass_web                                                         *)
(***************************************************************************)
search_fass_web(q) ==
    LET encoded_query == quote(q)
        url == (* https://fass.se/search?query= *)
               <<"h", "t", "t", "p", "s", ":", "/", "/", "f", "a", "s", "s", ".", "s", "e", "/", "s",
                 "e", "a", "r", "c", "h", "?", "q", "u", "e", "r", "y", "=">> \o encoded_query
    IN  [query |-> q,
         search_url |-> url,
         note |-> (* Visit the URL above to see full results on FASS.se *)
                  <<"V", "i", "s", "i", "t", " ", "t", "h", "e", " ", "U", "R", "L", " ", "a", "b", "o",
                    "v", "e", " ", "t", "o", " ", "s", "e", "e", " ", "f", "u", "l", "l", " ", "r", "e",
                    "s", "u", "l", "t", "s", " ", "o", "n", " ", "F", "A", "S", "S", ".", "s", "e">>]

(***************************************************************************)
(* get_common_medications: the dict literal, in insertion order.  A Python *)
(* value that is a bool or a str carries its type.                         *)
(***************************************************************************)
PyBool(b) == [type |-> "bool", val |-> b]

PyStr(s) == [type |-> "str", val |-> s]

\* a == b, for two Python values
PyEq(a, b) == a.type = b.type /\ a.val = b.val

Item(name, brands, use, dose, otc, warnings) ==
    [med_name |-> name,
     info |-> [brands |-> brands, use |-> use, dose |-> dose, otc |-> otc,
               warnings |-> warnings]]

get_common_medications ==
    << Item((* paracetamol *)
            <<"p", "a", "r", "a", "c", "e", "t", "a", "m", "o", "l">>,
            <<(* Alvedon *) <<"A", "l", "v", "e", "d", "o", "n">>, (* Panodil *) <<"P", "a", "n", "o", "d", "i", "l">>, (* Pamol *) <<"P", "a", "m", "o", "l">>>>,
            (* Pain relief, fever reduction *)
            <<"P", "a", "i", "n", " ", "r", "e", "l", "i", "e", "f", ",", " ", "f", "e", "v", "e",
              "r", " ", "r", "e", "d", "u", "c", "t", "i", "o", "n">>,
            (* Adult: 500-1000mg every 4-6h, max 4g/day *)
            <<"A", "d", "u", "l", "t", ":", " ", "5", "0", "0", "-", "1", "0", "0", "0", "m", "g",
              " ", "e", "v", "e", "r", "y", " ", "4", "-", "6", "h", ",", " ", "m", "a", "x", " ",
              "4", "g", "/", "d", "a", "y">>,
            PyBool(TRUE),
            (* Avoid with liver disease, limit alcohol *)
            <<"A", "v", "o", "i", "d", " ", "w", "i", "t", "h", " ", "l", "i", "v", "e", "r", " ",
              "d", "i", "s", "e", "a", "s", "e", ",", " ", "l", "i", "m", "i", "t", " ", "a", "l",
              "c", "o", "h", "o", "l">>),
       Item((* ibuprofen *) <<"i", "b", "u", "p", "r", "o", "f", "e", "n">>,
            <<(* Ipren *) <<"I", "p", "r", "e", "n">>, (* Ibumetin *) <<"I", "b", "u", "m", "e", "t", "i", "n">>, (* Brufen *) <<"B", "r", "u", "f", "e", "n">>>>,
            (* Pain, inflammation, fever *)
            <<"P", "a", "i", "n", ",", " ", "i", "n", "f", "l", "a", "m", "m", "a", "t", "i", "o",
              "n", ",", " ", "f", "e", "v", "e", "r">>,
            (* Adult: 200-400mg every 4-6h, max 1200mg/day (OTC) *)
            <<"A", "d", "u", "l", "t", ":", " ", "2", "0", "0", "-", "4", "0", "0", "m", "g", " ",
              "e", "v", "e", "r", "y", " ", "4", "-", "6", "h", ",", " ", "m", "a", "x", " ", "1",
              "2", "0", "0", "m", "g", "/", "d", "a", "y", " ", "(", "O", "T", "C", ")">>,
            PyBool(TRUE),
            (* Take with food, avoid if stomach ulcers or kidney issues *)
            <<"T", "a", "k", "e", " ", "w", "i", "t", "h", " ", "f", "o", "o", "d", ",", " ", "a",
              "v", "o", "i", "d", " ", "i", "f", " ", "s", "t", "o", "m", "a", "c", "h", " ", "u",
              "l", "c", "e", "r", "s", " ", "o", "r", " ", "k", "i", "d", "n", "e", "y", " ", "i",
              "s", "s", "u", "e", "s">>),
       Item((* omeprazol *) <<"o", "m", "e", "p", "r", "a", "z", "o", "l">>,
            <<(* Losec *) <<"L", "o", "s", "e", "c">>, (* Omeprazol *) <<"O", "m", "e", "p", "r", "a", "z", "o", "l">>>>,
            (* Acid reflux, stomach ulcers, GERD *)
            <<"A", "c", "i", "d", " ", "r", "e", "f", "l", "u", "x", ",", " ", "s", "t", "o", "m",
              "a", "c", "h", " ", "u", "l", "c", "e", "r", "s", ",", " ", "G", "E", "R", "D">>,
            (* Adult: 20mg once daily *)
            <<"A", "d", "u", "l", "t", ":", " ", "2", "0", "m", "g", " ", "o", "n", "c", "e", " ",
              "d", "a", "i", "l", "y">>,
            PyStr((* Low dose OTC, higher doses Rx *)
                  <<"L", "o", "w", " ", "d", "o", "s", "e", " ", "O", "T", "C", ",", " ", "h", "i", "g",
                    "h", "e", "r", " ", "d", "o", "s", "e", "s", " ", "R", "x">>),
            (* Long-term use may affect B12/magnesium *)
            <<"L", "o", "n", "g", "-", "t", "e", "r", "m", " ", "u", "s", "e", " ", "m", "a", "y",
              " ", "a", "f", "f", "e", "c", "t", " ", "B", "1", "2", "/", "m", "a", "g", "n", "e",
              "s", "i", "u", "m">>),
       Item((* sertralin *) <<"s", "e", "r", "t", "r", "a", "l", "i", "n">>,
            <<(* Zoloft *) <<"Z", "o", "l", "o", "f", "t">>, (* Sertralin *) <<"S", "e", "r", "t", "r", "a", "l", "i", "n">>>>,
            (* Depression, anxiety, OCD, PTSD *)
            <<"D", "e", "p", "r", "e", "s", "s", "i", "o", "n", ",", " ", "a", "n", "x", "i", "e",
              "t", "y", ",", " ", "O", "C", "D", ",", " ", "P", "T", "S", "D">>,
            (* Adult: Start 50mg/day, may increase *)
            <<"A", "d", "u", "l", "t", ":", " ", "S", "t", "a", "r", "t", " ", "5", "0", "m", "g",
              "/", "d", "a", "y", ",", " ", "m", "a", "y", " ", "i", "n", "c", "r", "e", "a", "s",
              "e">>,
            PyBool(FALSE),
            (* Takes 2-4 weeks for effect, do not stop abruptly *)
            <<"T", "a", "k", "e", "s", " ", "2", "-", "4", " ", "w", "e", "e", "k", "s", " ", "f",
              "o", "r", " ", "e", "f", "f", "e", "c", "t", ",", " ", "d", "o", " ", "n", "o", "t",
              " ", "s", "t", "o", "p", " ", "a", "b", "r", "u", "p", "t", "l", "y">>),
       Item((* metformin *) <<"m", "e", "t", "f", "o", "r", "m", "i", "n">>,
            <<(* Metformin *) <<"M", "e", "t", "f", "o", "r", "m", "i", "n">>, (* Glucophage *) <<"G", "l", "u", "c", "o", "p", "h", "a", "g", "e">>>>,
            (* Type 2 diabetes *)
            <<"T", "y", "p", "e", " ", "2", " ", "d", "i", "a", "b", "e", "t", "e", "s">>,
            (* Adult: Start 500mg 1-2x/day with food *)
            <<"A", "d", "u", "l", "t", ":", " ", "S", "t", "a", "r", "t", " ", "5", "0", "0", "m",
              "g", " ", "1", "-", "2", "x", "/", "d", "a", "y", " ", "w", "i", "t", "h", " ", "f",
              "o", "o", "d">>,
            PyBool(FALSE),
            (* Monitor kidney function, stop before contrast imaging *)
            <<"M", "o", "n", "i", "t", "o", "r", " ", "k", "i", "d", "n", "e", "y", " ", "f", "u",
              "n", "c", "t", "i", "o", "n", ",", " ", "s", "t", "o", "p", " ", "b", "e", "f", "o",
              "r", "e", " ", "c", "o", "n", "t", "r", "a", "s", "t", " ", "i", "m", "a", "g", "i",
              "n", "g">>),
       Item((* atorvastatin *)
            <<"a", "t", "o", "r", "v", "a", "s", "t", "a", "t", "i", "n">>,
            <<(* Lipitor *) <<"L", "i", "p", "i", "t", "o", "r">>, (* Atorvastatin *)
                           <<"A", "t", "o", "r", "v", "a", "s", "t", "a", "t", "i", "n">>>>,
            (* High cholesterol, cardiovascular prevention *)
            <<"H", "i", "g", "h", " ", "c", "h", "o", "l", "e", "s", "t", "e", "r", "o", "l", ",",
              " ", "c", "a", "r", "d", "i", "o", "v", "a", "s", "c", "u", "l", "a", "r", " ", "p",
              "r", "e", "v", "e", "n", "t", "i", "o", "n">>,
            (* Adult: 10-80mg once daily *)
            <<"A", "d", "u", "l", "t", ":", " ", "1", "0", "-", "8", "0", "m", "g", " ", "o", "n",
              "c", "e", " ", "d", "a", "i", "l", "y">>,
            PyBool(FALSE),
            (* Report muscle pain, avoid grapefruit *)
            <<"R", "e", "p", "o", "r", "t", " ", "m", "u", "s", "c", "l", "e", " ", "p", "a", "i",
              "n", ",", " ", "a", "v", "o", "i", "d", " ", "g", "r", "a", "p", "e", "f", "r", "u",
              "i", "t">>),
       Item((* loratadin *) <<"l", "o", "r", "a", "t", "a", "d", "i", "n">>,
            <<(* Clarityn *) <<"C", "l", "a", "r", "i", "t", "y", "n">>, (* Loratadin *) <<"L", "o", "r", "a", "t", "a", "d", "i", "n">>>>,
            (* Allergies, hay fever, hives *)
            <<"A", "l", "l", "e", "r", "g", "i", "e", "s", ",", " ", "h", "a", "y", " ", "f", "e",
              "v", "e", "r", ",", " ", "h", "i", "v", "e", "s">>,
            (* Adult: 10mg once daily *)
            <<"A", "d", "u", "l", "t", ":", " ", "1", "0", "m", "g", " ", "o", "n", "c", "e", " ",
              "d", "a", "i", "l", "y">>,
            PyBool(TRUE),
            (* Non-drowsy antihistamine *)
            <<"N", "o", "n", "-", "d", "r", "o", "w", "s", "y", " ", "a", "n", "t", "i", "h", "i",
              "s", "t", "a", "m", "i", "n", "e">>),
       Item((* cetirizin *) <<"c", "e", "t", "i", "r", "i", "z", "i", "n">>,
            <<(* Zyrtec *) <<"Z", "y", "r", "t", "e", "c">>, (* Cetirizin *) <<"C", "e", "t", "i", "r", "i", "z", "i", "n">>>>,
            (* Allergies, hay fever, hives *)
            <<"A", "l", "l", "e", "r", "g", "i", "e", "s", ",", " ", "h", "a", "y", " ", "f", "e",
              "v", "e", "r", ",", " ", "h", "i", "v", "e", "s">>,
            (* Adult: 10mg once daily *)
            <<"A", "d", "u", "l", "t", ":", " ", "1", "0", "m", "g", " ", "o", "n", "c", "e", " ",
              "d", "a", "i", "l", "y">>,
            PyBool(TRUE),
            (* May cause slight drowsiness *)
            <<"M", "a", "y", " ", "c", "a", "u", "s", "e", " ", "s", "l", "i", "g", "h", "t", " ",
              "d", "r", "o", "w", "s", "i", "n", "e", "s", "s">>) >>

(***************************************************************************)
(* lookup_medication                                                       *)
(***************************************************************************)
\* the brands compared as they are listed, without b.lower()
brands_as_listed(info) == info.brands

\* [b.lower() for b in info['brands']]
brands_lower(info) == [i \in DOMAIN info.brands |-> lower(info.brands[i])]

RECURSIVE scan_last_wins(_, _, _)
\* the for loop without its break statements: the last matching item is kept
scan_last_wins(q_lower, meds, i) ==
    IF i > Len(meds) THEN None
    ELSE LET med_name == meds[i].med_name
             info == meds[i].info
             rest == scan_last_wins(q_lower, meds, i + 1)
         IN  IF rest # None THEN rest
             ELSE IF \/ q_lower = med_name
                     \/ InList(q_lower, [k \in DOMAIN info.brands |-> lower(info.brands[k])])
                     \/ contains(q_lower, med_name)
             THEN <<med_name, info>>
             ELSE None

RECURSIVE scan_brand_substring(_, _, _)
\* the for loop with the substring rule broadened to the brand names
scan_brand_substring(q_lower, meds, i) ==
    IF i > Len(meds) THEN None
    ELSE LET med_name == meds[i].med_name
             info == meds[i].info
         IN  IF \/ q_lower = med_name
                \/ contains(q_lower, med_name)
                \/ \E k \in DOMAIN info.brands : contains(q_lower, lower(info.brands[k]))
             THEN <<med_name, info>>
             ELSE scan_brand_substring(q_lower, meds, i + 1)

RECURSIVE scan(_, _, _)
\* the for loop of lines 100-106 from the i-th item on: the value of found after it
scan(q_lower, meds, i) ==
    IF i > Len(meds) THEN None
    ELSE LET med_name == meds[i].med_name
             info == meds[i].info
         IN  IF q_lower = med_name \/ InList(q_lower, brands_lower(info))
             THEN <<med_name, info>>
             ELSE IF contains(q_lower, med_name)
             THEN <<med_name, info>>
             ELSE scan(q_lower, meds, i + 1)

\* line 113 testing the truth value of info['otc'] instead of comparing with True
otc_text_truthy(info) ==
    IF info.otc.type = "str" \/ info.otc.val THEN (* Yes (receptfritt) *)
                                                  <<"Y", "e", "s", " ", "(", "r", "e", "c", "e", "p", "t", "f", "r", "i", "t", "t", ")">>
    ELSE (* No (receptbelagt) *)
         <<"N", "o", " ", "(", "r", "e", "c", "e", "p", "t", "b", "e", "l", "a", "g", "t", ")">>

\* the conditional expression of line 113
otc_text(info) ==
    IF PyEq(info.otc, PyBool(TRUE)) THEN (* Yes (receptfritt) *)
                                         <<"Y", "e", "s", " ", "(", "r", "e", "c", "e", "p", "t", "f", "r", "i", "t", "t", ")">>
    ELSE IF PyEq(info.otc, PyBool(FALSE)) THEN (* No (receptbelagt) *)
                                               <<"N", "o", " ", "(", "r", "e", "c", "e", "p", "t", "b", "e", "l", "a", "g", "t", ")">>
    ELSE info.otc.val

\* lines 108-115: the lines appended when found is truthy
medication_section(fnd) ==
    IF fnd # None
    THEN LET med_name == fnd[1]
             info == fnd[2]
         IN  << (* ###  *) <<"#", "#", "#", " ">> \o title(med_name) \o <<" ", "(">> \o join(<<",", " ">>, info.brands)
                    \o <<")", "\n">>,
                (* **Use:**  *) <<"*", "*", "U", "s", "e", ":", "*", "*", " ">> \o info.use,
                (* **Dosage:**  *)
                <<"*", "*", "D", "o", "s", "a", "g", "e", ":", "*", "*", " ">> \o info.dose,
                (* **OTC:**  *) <<"*", "*", "O", "T", "C", ":", "*", "*", " ">> \o otc_text(info),
                (* **Warnings:**  *)
                <<"*", "*", "W", "a", "r", "n", "i", "n", "g", "s", ":", "*", "*", " ">> \o info.warnings,
                <<>> >>
    ELSE <<>>

\* lines 117-124 without the disclaimer line
fass_section_no_disclaimer(info) ==
    << (* ### Full Information on FASS *)
       <<"#", "#", "#", " ", "F", "u", "l", "l", " ", "I", "n", "f", "o", "r", "m", "a", "t",
         "i", "o", "n", " ", "o", "n", " ", "F", "A", "S", "S">>,
       <<"U+1F517", " ">> \o info.search_url,
       <<>>,
       <<"-", "-", "-">>,
       (* *Sources: FASS.se, Läkemedelsverket* *)
       <<"*", "S", "o", "u", "r", "c", "e", "s", ":", " ", "F", "A", "S", "S", ".", "s", "e",
         ",", " ", "L", "ä", "k", "e", "m", "e", "d", "e", "l", "s", "v", "e", "r", "k", "e",
         "t", "*">> >>

\* lines 117-124: the lines always appended
fass_section(info) ==
    << (* ### Full Information on FASS *)
       <<"#", "#", "#", " ", "F", "u", "l", "l", " ", "I", "n", "f", "o", "r", "m", "a", "t",
         "i", "o", "n", " ", "o", "n", " ", "F", "A", "S", "S">>,
       <<"U+1F517", " ">> \o info.search_url,
       <<>>,
       <<"-", "-", "-">>,
       (* *This is informational only. Always consult healthcare professionals for medical advice.* *)
       <<"*", "T", "h", "i", "s", " ", "i", "s", " ", "i", "n", "f", "o", "r", "m", "a", "t",
         "i", "o", "n", "a", "l", " ", "o", "n", "l", "y", ".", " ", "A", "l", "w", "a", "y",
         "s", " ", "c", "o", "n", "s", "u", "l", "t", " ", "h", "e", "a", "l", "t", "h", "c",
         "a", "r", "e", " ", "p", "r", "o", "f", "e", "s", "s", "i", "o", "n", "a", "l", "s",
         " ", "f", "o", "r", " ", "m", "e", "d", "i", "c", "a", "l", " ", "a", "d", "v", "i",
         "c", "e", ".", "*">>,
       (* *Sources: FASS.se, Läkemedelsverket* *)
       <<"*", "S", "o", "u", "r", "c", "e", "s", ":", " ", "F", "A", "S", "S", ".", "s", "e",
         ",", " ", "L", "ä", "k", "e", "m", "e", "d", "e", "l", "s", "v", "e", "r", "k", "e",
         "t", "*">> >>

\* lookup_medication with found kept from the call before (a module-level found
\* that line 99 does not reset)
lookup_medication_stale_found(q) ==
    LET q_lower == strip(lower(q))
        meds == get_common_medications
        fnd == IF found # None THEN found ELSE scan(q_lower, meds, 1)
        info == search_fass_web(q)
        out == << (* ## Swedish Medication Lookup:  *)
                  <<"#", "#", " ", "S", "w", "e", "d", "i", "s", "h", " ", "M", "e", "d", "i", "c", "a",
                    "t", "i", "o", "n", " ", "L", "o", "o", "k", "u", "p", ":", " ">> \o q \o <<"\n">> >>
                   \o medication_section(fnd)
                   \o fass_section(info)
    IN  [query_lower |-> q_lower,
         common_meds |-> meds,
         found |-> fnd,
         output |-> out,
         web_info |-> info,
         return |-> join(<<"\n">>, out)]

\* the locals of lookup_medication(q) when it returns, and its return value
lookup_medication(q) ==
    LET q_lower == strip(lower(q))
        meds == get_common_medications
        fnd == scan(q_lower, meds, 1)
        info == search_fass_web(q)
        out == << (* ## Swedish Medication Lookup:  *)
                  <<"#", "#", " ", "S", "w", "e", "d", "i", "s", "h", " ", "M", "e", "d", "i", "c", "a",
                    "t", "i", "o", "n", " ", "L", "o", "o", "k", "u", "p", ":", " ">> \o q \o <<"\n">> >>
                   \o medication_section(fnd)
                   \o fass_section(info)
    IN  [query_lower |-> q_lower,
         common_meds |-> meds,
         found |-> fnd,
         output |-> out,
         web_info |-> info,
         return |-> join(<<"\n">>, out)]

(***************************************************************************)
(* Inputs: the arguments the program is started with, and the queries an   *)
(* importing caller passes.                                                *)
(***************************************************************************)
Names == {get_common_medications[i].med_name : i \in DOMAIN get_common_medications}

Brands ==
    UNION {Range(get_common_medications[i].info.brands) : i \in DOMAIN get_common_medications}

\* s with the characters at the positions T upper-cased, and s upper-cased but for them
Cased(s, T) ==
    { [i \in DOMAIN s |-> IF i \in T THEN upper_char(s[i]) ELSE lower_char(s[i])],
      [i \in DOMAIN s |-> IF i \in T THEN lower_char(s[i]) ELSE upper_char(s[i])] }

CaseVariants(s) ==
    UNION {Cased(s, T) : T \in {U \in SUBSET DOMAIN s : Cardinality(U) <= MaxUpper}}

RECURSIVE Words(_, _)
\* the strings of at most n characters of A
Words(A, n) ==
    IF n = 0 THEN {<<>>}
    ELSE LET W == Words(A, n - 1) IN W \cup {<<a>> \o w : a \in A, w \in W}

Padded(S) == {l \o s \o r : l \in Words({" "}, MaxPad), r \in Words({" "}, MaxPad), s \in S}

Substrings(s) == {SubSeq(s, i, j) : i \in 1..(Len(s) + 1), j \in 0..Len(s)}

Examples ==
    { (* aspirin *) <<"a", "s", "p", "i", "r", "i", "n">>, (* alvedon 500mg *)
                   <<"a", "l", "v", "e", "d", "o", "n", " ", "5", "0", "0", "m", "g">>, (* para *) <<"p", "a", "r", "a">>, (* panodil *) <<"p", "a", "n", "o", "d", "i", "l">>, (* Läkemedel *) <<"L", "ä", "k", "e", "m", "e", "d", "e", "l">>,
      (* \tIpren\n *) <<"\t", "I", "p", "r", "e", "n", "\n">>, (* a+b&c=d? *) <<"a", "+", "b", "&", "c", "=", "d", "?">>, (* 100% *) <<"1", "0", "0", "%">>, (* ÅÄÖ åäö *) <<"Å", "Ä", "Ö", " ", "å", "ä", "ö">>, (*  \t\n\r\f  *) <<" ", "\t", "\n", "\r", "\f", " ">> }

Queries ==
    Padded(UNION {CaseVariants(s) : s \in Names \cup Brands})
    \cup UNION {Substrings(lower(s)) : s \in Names \cup Brands}
    \cup Words({"a", "c", "P", " ", "\t", "%"}, MaxLen)
    \cup Examples

\* the queries of a caller that calls more than once
CallQueries == { (* panodil *) <<"p", "a", "n", "o", "d", "i", "l">>, (*  Para *) <<" ", "P", "a", "r", "a">>, <<"c">>, (* aspirin *) <<"a", "s", "p", "i", "r", "i", "n">>, <<>> }

RECURSIVE Lists(_, _)
\* the lists of at most n elements of S
Lists(S, n) ==
    IF n = 0 THEN {<<>>}
    ELSE LET L == Lists(S, n - 1) IN L \cup {<<x>> \o l : x \in S, l \in L}

ArgWords == { (* alvedon *) <<"a", "l", "v", "e", "d", "o", "n">>, (* 500mg *) <<"5", "0", "0", "m", "g">>, (* Para *) <<"P", "a", "r", "a">>, (* aspirin *) <<"a", "s", "p", "i", "r", "i", "n">>, <<" ">>, <<>> }

Argvs == {<< (* fass_lookup.py *)
             <<"f", "a", "s", "s", "_", "l", "o", "o", "k", "u", "p", ".", "p", "y">> >> \o args : args \in Lists(ArgWords, MaxArgs)}

(***************************************************************************)
(* The state machine.                                                      *)
(***************************************************************************)
NoCall ==
    /\ query = None
    /\ query_lower = None
    /\ common_meds = None
    /\ found = None
    /\ output = None
    /\ web_info = None
    /\ result = None
    /\ calls = <<>>

Init ==
    /\ NoCall
    /\ stdout = <<>>
    /\ exit_status = -1
    /\ \/ /\ name__ = "__main__"
          /\ argv \in Argvs
          /\ pending = <<>>
       \/ /\ name__ = "fass_lookup"
          /\ argv = <<>>
          /\ pending \in {<<q>> : q \in Queries} \cup (Lists(CallQueries, MaxCalls) \ {<<>>})

\* one call lookup_medication(q): its locals and its result, and the history
Call(q) ==
    LET r == lookup_medication(q)
    IN  /\ query' = q
        /\ query_lower' = r.query_lower
        /\ common_meds' = r.common_meds
        /\ found' = r.found
        /\ output' = r.output
        /\ web_info' = r.web_info
        /\ result' = r.return
        /\ calls' = Append(calls, [query |-> q, common_meds |-> r.common_meds,
                                   return |-> r.return])

\* the module is imported and its caller calls lookup_medication(query)
Lookup ==
    /\ name__ # "__main__"
    /\ pending # <<>>
    /\ Call(Head(pending))
    /\ pending' = Tail(pending)
    /\ UNCHANGED <<name__, argv, stdout, exit_status>>

\* lines 128-133: run as a script with no argument
MainUsage ==
    /\ name__ = "__main__"
    /\ exit_status = -1
    /\ Len(argv) < 2
    /\ stdout' = stdout \o << (* Usage: fass_lookup.py <medication_name> *)
                              <<"U", "s", "a", "g", "e", ":", " ", "f", "a", "s", "s", "_", "l", "o", "o", "k", "u",
                                "p", ".", "p", "y", " ", "<", "m", "e", "d", "i", "c", "a", "t", "i", "o", "n", "_",
                                "n", "a", "m", "e", ">">>,
                              (* Example: fass_lookup.py paracetamol *)
                              <<"E", "x", "a", "m", "p", "l", "e", ":", " ", "f", "a", "s", "s", "_", "l", "o", "o",
                                "k", "u", "p", ".", "p", "y", " ", "p", "a", "r", "a", "c", "e", "t", "a", "m", "o",
                                "l">>,
                              (* Example: fass_lookup.py alvedon *)
                              <<"E", "x", "a", "m", "p", "l", "e", ":", " ", "f", "a", "s", "s", "_", "l", "o", "o",
                                "k", "u", "p", ".", "p", "y", " ", "a", "l", "v", "e", "d", "o", "n">> >>
    /\ exit_status' = 1
    /\ UNCHANGED <<name__, argv, pending, query, query_lower, common_meds, found,
                   output, web_info, result, calls>>

\* lines 128-136 with sys.argv[1] as the query in the place of the joined arguments
MainLookup_first_argument ==
    /\ name__ = "__main__"
    /\ exit_status = -1
    /\ ~(Len(argv) < 2)
    /\ Call(argv[2])
    /\ stdout' = Append(stdout, result')
    /\ exit_status' = 0
    /\ UNCHANGED <<name__, argv, pending>>

\* lines 128-136: run as a script with arguments
MainLookup ==
    /\ name__ = "__main__"
    /\ exit_status = -1
    /\ ~(Len(argv) < 2)
    /\ Call(join(<<" ">>, Tail(argv)))
    /\ stdout' = Append(stdout, result')
    /\ exit_status' = 0
    /\ UNCHANGED <<name__, argv, pending>>

Next == Lookup \/ MainUsage \/ MainLookup

Spec == Init /\ [][Next]_vars

(***************************************************************************)
(* The claims.  Called: lookup_medication has returned at least once, and  *)
(* query, found, output, web_info and result are those of its latest call. *)
(***************************************************************************)
Called == calls # <<>>

\* a query as the matcher is specified to see it: trimmed, then lower-cased
Normalized(q) == lower(strip(q))

\* the three rules of the matcher for one directory entry
RuleMatches(n, item) ==
    \/ n = item.med_name
    \/ \E b \in Range(item.info.brands) : n = lower(b)
    \/ contains(n, item.med_name)

InsertionOrder ==
    << (* paracetamol *)
       <<"p", "a", "r", "a", "c", "e", "t", "a", "m", "o", "l">>, (* ibuprofen *) <<"i", "b", "u", "p", "r", "o", "f", "e", "n">>, (* omeprazol *) <<"o", "m", "e", "p", "r", "a", "z", "o", "l">>, (* sertralin *) <<"s", "e", "r", "t", "r", "a", "l", "i", "n">>,
       (* metformin *) <<"m", "e", "t", "f", "o", "r", "m", "i", "n">>, (* atorvastatin *)
                      <<"a", "t", "o", "r", "v", "a", "s", "t", "a", "t", "i", "n">>, (* loratadin *) <<"l", "o", "r", "a", "t", "a", "d", "i", "n">>, (* cetirizin *) <<"c", "e", "t", "i", "r", "i", "z", "i", "n">> >>

\* the entries of the directory that a query matches by one of the three rules
MatchingEntries(q) ==
    {i \in DOMAIN common_meds : RuleMatches(Normalized(q), common_meds[i])}

Min(S) == CHOOSE x \in S : \A y \in S : x <= y

\* C1: lookup_medication finds, for every query, the first entry in insertion
\* order (paracetamol, ..., cetirizin) whose canonical name equals the normalized
\* query, one of whose brands lower-cased equals it, or whose canonical name
\* contains it; it finds no record exactly when no entry satisfies a rule.
C1_FirstMatchWins ==
    Called =>
        /\ [i \in DOMAIN common_meds |-> common_meds[i].med_name] = InsertionOrder
        /\ LET M == MatchingEntries(query)
           IN  IF M = {} THEN found = None
               ELSE found = <<common_meds[Min(M)].med_name, common_meds[Min(M)].info>>

\* C1 witness: several entries match by the substring rule and the first is found
C1_Witness ==
    /\ Called
    /\ Cardinality(MatchingEntries(query)) >= 2
    /\ query_lower \notin Names
    /\ found # None
    /\ found[1] = (* paracetamol *)
                  <<"p", "a", "r", "a", "c", "e", "t", "a", "m", "o", "l">>

\* q is s in some mix of upper and lower case
CaseMix(q, s) ==
    /\ Len(q) = Len(s)
    /\ \A k \in DOMAIN s : q[k] \in {lower_char(s[k]), upper_char(s[k])}

\* q is s in some mix of upper and lower case between leading and trailing white space
CaseMixPadded(q, s) ==
    \E i \in 1..(Len(q) + 1) :
        /\ \A k \in 1..(i - 1) : q[k] \in Whitespace
        /\ i + Len(s) - 1 <= Len(q)
        /\ CaseMix(SubSeq(q, i, i + Len(s) - 1), s)
        /\ \A k \in (i + Len(s))..Len(q) : q[k] \in Whitespace

\* C2: a query that is one of the 8 canonical names in any mix of case, with any
\* leading and trailing white space, finds that name's own record.
C2_CanonicalNameFindsOwnRecord ==
    Called =>
        \A i \in DOMAIN get_common_medications :
            LET item == get_common_medications[i]
            IN  CaseMixPadded(query, InsertionOrder[i]) =>
                    /\ found # None
                    /\ found[1] = InsertionOrder[i]
                    /\ found[2] = item.info
                    /\ item.med_name = InsertionOrder[i]

\* C2 witness: a padded, mixed-case "atorvastatin" (the sixth entry) has been looked up
C2_Witness ==
    /\ Called
    /\ CaseMixPadded(query, (* atorvastatin *)
                            <<"a", "t", "o", "r", "v", "a", "s", "t", "a", "t", "i", "n">>)
    /\ query # query_lower
    /\ Head(query) \in Whitespace
    /\ found # None
    /\ found[1] = (* atorvastatin *)
                  <<"a", "t", "o", "r", "v", "a", "s", "t", "a", "t", "i", "n">>

\* C3: a query that equals a brand of the directory case-insensitively finds the
\* record that lists the brand; no earlier entry captures it.
C3_BrandFindsOwner ==
    Called =>
        \A i \in DOMAIN get_common_medications :
            LET item == get_common_medications[i]
            IN  \A b \in Range(item.info.brands) :
                    CaseMix(query, b) => found = <<item.med_name, item.info>>

\* C3 witness: "zyrtec" in another case than the directory's has found cetirizin
C3_Witness ==
    /\ Called
    /\ CaseMix(query, (* Zyrtec *) <<"Z", "y", "r", "t", "e", "c">>)
    /\ query # (* Zyrtec *) <<"Z", "y", "r", "t", "e", "c">>
    /\ found # None
    /\ found[1] = (* cetirizin *) <<"c", "e", "t", "i", "r", "i", "z", "i", "n">>

AllBrandsLower == {lower(b) : b \in Brands}

\* the query is a proper part of a brand of the entry, and no part of the entry's name
PartOfBrandOnly(n, item) ==
    /\ \E b \in Range(item.info.brands) : contains(n, lower(b))
    /\ ~contains(n, item.med_name)
    /\ n \notin AllBrandsLower

\* the output holds the header and the reference-link section and nothing else
NoMedicationSection == found = None /\ Len(output) = 7

\* C4 as claimed: a query that is a substring of a brand of an entry, not a
\* substring of that entry's canonical name and not equal to any brand matches no
\* record.
C4_Original ==
    Called =>
        ((\E i \in DOMAIN get_common_medications :
              PartOfBrandOnly(Normalized(query), get_common_medications[i]))
         => NoMedicationSection)

\* C4 amended: a query that is a substring of a brand, not a substring of the
\* canonical name of any entry and not equal to any brand matches no record.
C4_Amended ==
    Called =>
        ((/\ \E i \in DOMAIN get_common_medications :
                PartOfBrandOnly(Normalized(query), get_common_medications[i])
          /\ \A i \in DOMAIN get_common_medications :
                ~contains(Normalized(query), get_common_medications[i].med_name))
         => NoMedicationSection)

\* C4 witness: "lose", part of the brand Losec and of no canonical name, found nothing
C4_Witness ==
    /\ Called
    /\ Normalized(query) = (* lose *) <<"l", "o", "s", "e">>
    /\ NoMedicationSection

ReferenceUrlPrefix == (* https://fass.se/search?query= *)
                      <<"h", "t", "t", "p", "s", ":", "/", "/", "f", "a", "s", "s", ".", "s", "e", "/", "s",
                        "e", "a", "r", "c", "h", "?", "q", "u", "e", "r", "y", "=">>

HeaderLine(q) == (* ## Swedish Medication Lookup:  *)
                 <<"#", "#", " ", "S", "w", "e", "d", "i", "s", "h", " ", "M", "e", "d", "i", "c", "a",
                   "t", "i", "o", "n", " ", "L", "o", "o", "k", "u", "p", ":", " ">> \o q \o <<"\n">>

Exited == exit_status # -1

RECURSIVE JoinedWithSpaces(_)
\* the arguments, each but the first preceded by one space
JoinedWithSpaces(args) ==
    IF Len(args) = 1 THEN args[1]
    ELSE JoinedWithSpaces(SubSeq(args, 1, Len(args) - 1)) \o <<" ">> \o args[Len(args)]

UsageMessage ==
    << (* Usage: fass_lookup.py <medication_name> *)
       <<"U", "s", "a", "g", "e", ":", " ", "f", "a", "s", "s", "_", "l", "o", "o", "k", "u",
         "p", ".", "p", "y", " ", "<", "m", "e", "d", "i", "c", "a", "t", "i", "o", "n", "_",
         "n", "a", "m", "e", ">">>,
       (* Example: fass_lookup.py paracetamol *)
       <<"E", "x", "a", "m", "p", "l", "e", ":", " ", "f", "a", "s", "s", "_", "l", "o", "o",
         "k", "u", "p", ".", "p", "y", " ", "p", "a", "r", "a", "c", "e", "t", "a", "m", "o",
         "l">>,
       (* Example: fass_lookup.py alvedon *)
       <<"E", "x", "a", "m", "p", "l", "e", ":", " ", "f", "a", "s", "s", "_", "l", "o", "o",
         "k", "u", "p", ".", "p", "y", " ", "a", "l", "v", "e", "d", "o", "n">> >>

chr(cp) == (CHOOSE p \in Range(CodePoints) : p[2] = cp)[1]

HexValue(c) == IndexOf(c, HexDigits) - 1

\* the byte written at s[k], s[k+1], s[k+2] as %XX
ByteAt(s, k) == (HexValue(s[k + 1]) * 16) + HexValue(s[k + 2])

IsEscape(s, k) ==
    /\ k + 2 <= Len(s)
    /\ s[k] = "%"
    /\ s[k + 1] \in Range(HexDigits)
    /\ s[k + 2] \in Range(HexDigits)

RECURSIVE unquote(_)
\* urllib.parse.unquote: every run of %XX escapes is decoded as UTF-8
unquote(s) ==
    IF s = <<>> THEN <<>>
    ELSE IF ~IsEscape(s, 1) THEN <<Head(s)>> \o unquote(Tail(s))
    ELSE LET b == ByteAt(s, 1)
         IN  IF b < 128 THEN <<chr(b)>> \o unquote(SubSeq(s, 4, Len(s)))
             ELSE IF b >= 192 /\ b < 224 /\ IsEscape(s, 4)
             THEN <<chr(((b - 192) * 64) + (ByteAt(s, 4) - 128))>>
                      \o unquote(SubSeq(s, 7, Len(s)))
             ELSE <<"U+FFFD">> \o unquote(SubSeq(s, 4, Len(s)))

C7_WitnessNonAscii ==
    /\ Called
    /\ query = (* Läkemedel *) <<"L", "ä", "k", "e", "m", "e", "d", "e", "l">>
    /\ query_lower # query
    /\ web_info.search_url = ReferenceUrlPrefix \o (* L%C3%A4kemedel *)
                                                   <<"L", "%", "C", "3", "%", "A", "4", "k", "e", "m", "e", "d", "e", "l">>

TitleCased(n) == <<upper_char(n[1])>> \o Tail(n)

RECURSIVE CommaJoined(_)
CommaJoined(bs) ==
    IF Len(bs) = 1 THEN bs[1]
    ELSE CommaJoined(SubSeq(bs, 1, Len(bs) - 1)) \o <<",", " ">> \o bs[Len(bs)]

OtcLine(otc) ==
    (* **OTC:**  *) <<"*", "*", "O", "T", "C", ":", "*", "*", " ">> \o
        (IF otc.type = "bool"
         THEN (IF otc.val THEN (* Yes (receptfritt) *)
                               <<"Y", "e", "s", " ", "(", "r", "e", "c", "e", "p", "t", "f", "r", "i", "t", "t", ")">> ELSE (* No (receptbelagt) *)
                                                          <<"N", "o", " ", "(", "r", "e", "c", "e", "p", "t", "b", "e", "l", "a", "g", "t", ")">>)
         ELSE otc.val)

\* C9: when a record matches, the OTC line reads "Yes (receptfritt)" exactly for
\* boolean true, "No (receptbelagt)" exactly for boolean false and is the record's
\* qualifier string otherwise; the medication section (subheader with the
\* title-cased name and the comma-joined brands, then Use, Dosage, OTC and Warnings)
\* is present if and only if a record matched.
C9_MedicationSection ==
    Called =>
        /\ \A i \in DOMAIN common_meds :
              \/ common_meds[i].info.otc \in {PyBool(TRUE), PyBool(FALSE)}
              \/ common_meds[i].info.otc.type = "str"
        /\ found = None =>
              /\ Len(output) = 7
              /\ \A k \in 2..7 : Len(output[k]) < 2 \/ SubSeq(output[k], 1, 2) # <<"*", "*">>
        /\ found # None =>
              LET med_name == found[1]
                  info == found[2]
              IN  /\ Len(output) = 13
                  /\ output[2] = (* ###  *) <<"#", "#", "#", " ">> \o TitleCased(med_name) \o <<" ", "(">>
                                    \o CommaJoined(info.brands) \o <<")", "\n">>
                  /\ output[3] = (* **Use:**  *) <<"*", "*", "U", "s", "e", ":", "*", "*", " ">> \o info.use
                  /\ output[4] = (* **Dosage:**  *)
                                 <<"*", "*", "D", "o", "s", "a", "g", "e", ":", "*", "*", " ">> \o info.dose
                  /\ output[5] = OtcLine(info.otc)
                  /\ output[6] = (* **Warnings:**  *)
                                 <<"*", "*", "W", "a", "r", "n", "i", "n", "g", "s", ":", "*", "*", " ">> \o info.warnings
                  /\ output[7] = <<>>

\* C9 witness: omeprazol, whose OTC value is a qualifier string, has been rendered
C9_Witness ==
    /\ Called
    /\ found # None
    /\ found[1] = (* omeprazol *) <<"o", "m", "e", "p", "r", "a", "z", "o", "l">>
    /\ found[2].otc.type = "str"
    /\ output[5] = (* **OTC:** Low dose OTC, higher doses Rx *)
                   <<"*", "*", "O", "T", "C", ":", "*", "*", " ", "L", "o", "w", " ", "d", "o", "s", "e",
                     " ", "O", "T", "C", ",", " ", "h", "i", "g", "h", "e", "r", " ", "d", "o", "s", "e",
                     "s", " ", "R", "x">>

\* C10: a query that is empty or white space only finds the first entry of the
\* directory, paracetamol, instead of no record.
C10_EmptyQueryFindsFirstEntry ==
    Called /\ (\A k \in DOMAIN query : query[k] \in Whitespace) =>
        /\ query_lower = <<>>
        /\ found = <<get_common_medications[1].med_name, get_common_medications[1].info>>
        /\ found[1] = (* paracetamol *)
                      <<"p", "a", "r", "a", "c", "e", "t", "a", "m", "o", "l">>
        /\ Len(output) = 13

\* C10 witness: a query of white space only has found paracetamol
C10_Witness ==
    /\ Called
    /\ query # <<>>
    /\ \A k \in DOMAIN query : query[k] \in Whitespace
    /\ found # None
    /\ found[1] = (* paracetamol *)
                  <<"p", "a", "r", "a", "c", "e", "t", "a", "m", "o", "l">>

====
